---- MODULE Spec2Model ----
(***************************************************************************)
(* Health scoring and greeting generation of the system monitor            *)
(* (src/main.py): SystemMonitor.get_system_health_score and                *)
(* SmartGreeting.generate_greeting, applied to the reports that            *)
(* SystemMonitor.collect_full_report assembles from the metric collectors. *)
(*                                                                         *)
(* Python dicts are functions with a domain of strings; d.get(k, default)  *)
(* is get(d, k, default).  The collectors round every percentage to one    *)
(* decimal (round(x, 1)), so a percentage is held as an integer number of  *)
(* tenths of a percent: Pct(80) is 80.0 %, Pct(80) + 1 is 80.1 %.          *)
(***************************************************************************)
EXTENDS Integers, Sequences, FiniteSets, TLC

VARIABLES
    report,       \* the report dict passed to the scorer and the greeter
    pc,           \* "collected" -> "scored" -> "greeted"
    hour,         \* datetime.now().hour as read by the last generate_greeting
    greeting,     \* the string returned by the last generate_greeting
    greeting_parts, \* its local list `greeting_parts`
    issues,       \* its local list `issues`
    suggestions,  \* its local list `suggestions`
    cats,         \* ghost: the code block that appended each entry of issues
    exc,          \* the exception the last generate_greeting raised, or "none"
    tips,         \* the list returned by the last get_quick_tips
    insights,     \* the list returned by the last _get_health_insights
    probe,        \* what the platform answers to each collector of this run
    args,         \* the arguments of SystemGreeter.run
    config,       \* SystemGreeter.config, the dict load_config returned
    console,      \* what display_system_report and run have printed
    files,        \* the file system: the state of each configuration path
    last_load,    \* ghost: the path, and the file found there, of the last load_config
    loads         \* ghost: one record per load_config call so far, in call order

greeter_vars == <<hour, greeting, greeting_parts, issues, suggestions, cats, exc>>
advice_vars == <<tips, insights>>
run_vars == <<probe, args, config, console>>
file_vars == <<files, last_load, loads>>

vars == <<report, pc, hour, greeting, greeting_parts, issues, suggestions, cats, exc,
          tips, insights, probe, args, config, console, files, last_load, loads>>

-----------------------------------------------------------------------------
(* Bounds of the model: caps on the counters the program leaves unbounded. *)

MaxUptimeDays == 31
MaxUpdates == 6
MaxCycleCount == 1001
MaxPrograms == 11

-----------------------------------------------------------------------------
(* Python values *)

Pct(n) == n * 10

EmptyDict == <<>>

None == [NoneType |-> TRUE]

\* d.get(k, default)
get(d, k, default) == IF k \in DOMAIN d THEN d[k] ELSE default

\* `if d:` for a value that is a dict or None
dict_truthy(d) == d # None /\ DOMAIN d # {}

\* `v = d.get(k)` followed by `if v:` for a numeric entry: None (key absent)
\* and 0 are both falsy
num_truthy(d, k) == k \in DOMAIN d /\ d[k] # 0

\* str() of a float that was rounded to one decimal: 69.9, 45.0
FormatTenths(x) == ToString(x \div 10) \o "." \o ToString(x % 10)

Max(a, b) == IF a >= b THEN a ELSE b

-----------------------------------------------------------------------------
(* The sub-records the collectors return *)

ErrorMarker == [error |-> "collector failed"]

StorageData(p) ==
    [percent_used |-> p, status |-> IF p > Pct(85) THEN "low" ELSE "normal"]

MemoryData(p) ==
    [percent_used |-> p, status |-> IF p > Pct(80) THEN "high" ELSE "normal"]

StartupData(d) ==
    [uptime_days |-> d, status |-> IF d > 7 THEN "long" ELSE "normal"]

DriverData(n) ==
    [available_updates |-> n,
     status |-> IF n > 0 THEN "updates_available" ELSE "up_to_date"]

DriverError ==
    [available_updates |-> 0, status |-> "unknown", error |-> "collector failed"]

HealthStatus(hp) ==
    IF hp >= Pct(90) THEN "excellent"
    ELSE IF hp >= Pct(80) THEN "good"
    ELSE IF hp >= Pct(70) THEN "fair"
    ELSE IF hp >= Pct(50) THEN "poor"
    ELSE "critical"

\* Optional values of the battery health probe: the empty set (key not set) or
\* a singleton.
Some(opt) == CHOOSE x \in opt : TRUE

\* _get_detailed_battery_health: health_percentage (with health_status) and
\* cycle_count are each set or not.
BatteryHealth(hp, cycles) ==
    (IF hp = {} THEN EmptyDict
     ELSE [health_percentage |-> Some(hp), health_status |-> HealthStatus(Some(hp))])
    @@ (IF cycles = {} THEN EmptyDict ELSE [cycle_count |-> Some(cycles)])

BatteryData(percent, plugged, hp, cycles) ==
    [percent |-> percent, plugged |-> plugged,
     status |-> IF percent < Pct(20) /\ ~plugged THEN "critical" ELSE "normal"]
    @@ BatteryHealth(hp, cycles)

-----------------------------------------------------------------------------
(* SystemMonitor.get_system_health_score *)

\* Variant: a missing percent_used counts as a full disk.
StorageDeductionMissingIsFull(rep) ==
    LET storage == get(rep, "storage", EmptyDict) IN
    IF get(storage, "percent_used", Pct(100)) > Pct(90) THEN 20
    ELSE IF get(storage, "percent_used", Pct(100)) > Pct(80) THEN 10
    ELSE 0

\* Variant: the 90 % tier compared with >=.
StorageDeductionInclusive(rep) ==
    LET storage == get(rep, "storage", EmptyDict) IN
    IF get(storage, "percent_used", 0) >= Pct(90) THEN 20
    ELSE IF get(storage, "percent_used", 0) > Pct(80) THEN 10
    ELSE 0

StorageDeduction(rep) ==
    LET storage == get(rep, "storage", EmptyDict) IN
    IF get(storage, "percent_used", 0) > Pct(90) THEN 20
    ELSE IF get(storage, "percent_used", 0) > Pct(80) THEN 10
    ELSE 0

\* Variant: the storage amounts (20 and 10) used for memory.
MemoryDeductionStorageAmounts(rep) ==
    LET memory == get(rep, "memory", EmptyDict) IN
    IF get(memory, "percent_used", 0) > Pct(90) THEN 20
    ELSE IF get(memory, "percent_used", 0) > Pct(80) THEN 10
    ELSE 0

\* Variant: `if` in place of `elif`, both tiers deducted above 90 %.
MemoryDeductionBothTiers(rep) ==
    LET memory == get(rep, "memory", EmptyDict) IN
    (IF get(memory, "percent_used", 0) > Pct(90) THEN 15 ELSE 0)
    + (IF get(memory, "percent_used", 0) > Pct(80) THEN 8 ELSE 0)

MemoryDeduction(rep) ==
    LET memory == get(rep, "memory", EmptyDict) IN
    IF get(memory, "percent_used", 0) > Pct(90) THEN 15
    ELSE IF get(memory, "percent_used", 0) > Pct(80) THEN 8
    ELSE 0

BatteryChargeDeduction(battery) ==
    IF get(battery, "percent", Pct(100)) < Pct(20) /\ ~get(battery, "plugged", FALSE)
    THEN 10 ELSE 0

BatteryHealthDeduction(battery) ==
    IF num_truthy(battery, "health_percentage")
    THEN IF battery["health_percentage"] < Pct(50) THEN 25
         ELSE IF battery["health_percentage"] < Pct(70) THEN 15
         ELSE IF battery["health_percentage"] < Pct(80) THEN 8
         ELSE 0
    ELSE 0

BatteryCyclesDeduction(battery) ==
    IF num_truthy(battery, "cycle_count")
    THEN IF battery["cycle_count"] > 1000 THEN 10
         ELSE IF battery["cycle_count"] > 500 THEN 5
         ELSE 0
    ELSE 0

\* Variant: the cycle count looked at only when the health check deducted
\* nothing (`elif` between the two blocks).
BatteryDeductionExclusive(rep) ==
    LET battery == get(rep, "battery", None) IN
    IF dict_truthy(battery)
    THEN BatteryChargeDeduction(battery)
         + (IF BatteryHealthDeduction(battery) > 0 THEN BatteryHealthDeduction(battery)
            ELSE BatteryCyclesDeduction(battery))
    ELSE 0

BatteryDeduction(rep) ==
    LET battery == get(rep, "battery", None) IN
    IF dict_truthy(battery)
    THEN BatteryChargeDeduction(battery) + BatteryHealthDeduction(battery)
         + BatteryCyclesDeduction(battery)
    ELSE 0

\* Variant: an uptime that could not be measured is penalised.
UptimeDeductionPenalisesError(rep) ==
    LET startup == get(rep, "startup", EmptyDict) IN
    IF "error" \in DOMAIN startup \/ get(startup, "uptime_days", 0) > 30 THEN 5 ELSE 0

UptimeDeduction(rep) ==
    LET startup == get(rep, "startup", EmptyDict) IN
    IF get(startup, "uptime_days", 0) > 30 THEN 5 ELSE 0

DriversDeduction(rep) ==
    LET drivers == get(rep, "drivers", EmptyDict) IN
    IF get(drivers, "available_updates", 0) > 5 THEN 15
    ELSE IF get(drivers, "available_updates", 0) > 0 THEN 5
    ELSE 0

get_system_health_score(rep) ==
    LET score == 100 - StorageDeduction(rep) - MemoryDeduction(rep)
                     - BatteryDeduction(rep) - UptimeDeduction(rep)
                     - DriversDeduction(rep)
    IN Max(0, score)

-----------------------------------------------------------------------------
(* SmartGreeting.generate_greeting *)

\* Variant: the morning starting after 5 (`5 < hour`).
time_greeting_late_morning(h) ==
    IF 5 < h /\ h < 12 THEN "Good morning!"
    ELSE IF 12 <= h /\ h < 17 THEN "Good afternoon!"
    ELSE IF 17 <= h /\ h < 21 THEN "Good evening!"
    ELSE "Hello!"

time_greeting(h) ==
    IF 5 <= h /\ h < 12 THEN "Good morning!"
    ELSE IF 12 <= h /\ h < 17 THEN "Good afternoon!"
    ELSE IF 17 <= h /\ h < 21 THEN "Good evening!"
    ELSE "Hello!"

health_sentence(health_score) ==
    IF health_score >= 95
    THEN "Your system is running exceptionally well today! Everything looks perfect."
    ELSE IF health_score >= 85
    THEN "Your computer is performing great with excellent system health."
    ELSE IF health_score >= 70
    THEN "Your system is running well, though there might be room for minor improvements."
    ELSE IF health_score >= 50
    THEN "Your computer needs some attention to optimize performance."
    ELSE "Your system requires immediate maintenance for better performance."

\* issues = [] ; suggestions = []   (cats is the ghost list of appending blocks)
NoIssues == [issues |-> <<>>, suggestions |-> <<>>, cats |-> <<>>]

\* issues.append(issue) ; suggestions.append(suggestion)
append_pair(acc, cat, issue, suggestion) ==
    [issues |-> Append(acc.issues, issue),
     suggestions |-> Append(acc.suggestions, suggestion),
     cats |-> Append(acc.cats, cat)]

storage_issue(acc, storage) ==
    IF get(storage, "percent_used", 0) > Pct(90)
    THEN append_pair(acc, "storage", "critically low disk space",
                     "free up disk space immediately")
    ELSE IF get(storage, "percent_used", 0) > Pct(80)
    THEN append_pair(acc, "storage", "limited disk space",
                     "consider cleaning up files")
    ELSE acc

\* Variant: the scorer's 80 % threshold used for the issue.
memory_issue_at_80(acc, memory) ==
    IF get(memory, "percent_used", 0) > Pct(80)
    THEN append_pair(acc, "memory", "high memory usage", "close unused applications")
    ELSE acc

memory_issue(acc, memory) ==
    IF get(memory, "percent_used", 0) > Pct(85)
    THEN append_pair(acc, "memory", "high memory usage", "close unused applications")
    ELSE acc

uptime_issue(acc, startup) ==
    IF get(startup, "uptime_days", 0) > 14
    THEN append_pair(acc, "uptime", ToString(startup["uptime_days"]) \o " days uptime",
                     "restart your computer soon")
    ELSE acc

\* `battery.get("percent") < 20` compares None with an int when the key is not set
low_battery_raises(battery) ==
    dict_truthy(battery) /\ "percent" \notin DOMAIN battery

low_battery_issue(acc, battery) ==
    IF dict_truthy(battery) /\ battery["percent"] < Pct(20)
       /\ ~get(battery, "plugged", FALSE)
    THEN append_pair(acc, "battery_charge", "low battery", "connect your charger")
    ELSE acc

battery_health_issue(acc, battery) ==
    IF num_truthy(battery, "health_percentage")
       /\ battery["health_percentage"] < Pct(70)
    THEN LET health_percentage == battery["health_percentage"]
             health_status == get(battery, "health_status", "unknown")
         IN append_pair(acc, "battery_health",
                "battery health at " \o FormatTenths(health_percentage) \o "% ("
                    \o health_status \o ")",
                IF health_percentage < Pct(50) THEN "consider battery replacement"
                ELSE "monitor battery performance")
    ELSE acc

battery_cycles_issue(acc, battery) ==
    IF num_truthy(battery, "cycle_count") /\ battery["cycle_count"] > 800
    THEN append_pair(acc, "battery_cycles",
                     "high battery cycles (" \o ToString(battery["cycle_count"]) \o ")",
                     "consider battery maintenance")
    ELSE acc

battery_issues(acc, battery) ==
    LET a1 == low_battery_issue(acc, battery) IN
    IF dict_truthy(battery)
    THEN battery_cycles_issue(battery_health_issue(a1, battery), battery)
    ELSE a1

drivers_issue(acc, drivers) ==
    IF get(drivers, "available_updates", 0) > 0
    THEN append_pair(acc, "drivers",
                     ToString(drivers["available_updates"]) \o " driver updates available",
                     "update your drivers")
    ELSE acc

\* Variant: the uptime block placed before the memory block.
collect_issues_uptime_first(rep) ==
    LET a1 == storage_issue(NoIssues, get(rep, "storage", EmptyDict))
        a2 == uptime_issue(a1, get(rep, "startup", EmptyDict))
        a3 == memory_issue(a2, get(rep, "memory", EmptyDict))
        a4 == battery_issues(a3, get(rep, "battery", None))
    IN drivers_issue(a4, get(rep, "drivers", EmptyDict))

\* lines 611-652: the issues and suggestions lists
collect_issues(rep) ==
    LET a1 == storage_issue(NoIssues, get(rep, "storage", EmptyDict))
        a2 == memory_issue(a1, get(rep, "memory", EmptyDict))
        a3 == uptime_issue(a2, get(rep, "startup", EmptyDict))
        a4 == battery_issues(a3, get(rep, "battery", None))
    IN drivers_issue(a4, get(rep, "drivers", EmptyDict))

\* sep.join(seq)
RECURSIVE join(_, _)
join(sep, seq) ==
    IF seq = <<>> THEN ""
    ELSE IF Len(seq) = 1 THEN seq[1]
    ELSE seq[1] \o sep \o join(sep, Tail(seq))

\* seq[:-1]
but_last(seq) == SubSeq(seq, 1, Len(seq) - 1)

issues_sentence(iss) ==
    IF iss = <<>> THEN <<>>
    ELSE IF Len(iss) = 1 THEN <<"I noticed " \o iss[1] \o ".">>
    ELSE <<"I noticed a few things: " \o join(", ", but_last(iss)) \o ", and "
            \o iss[Len(iss)] \o ".">>

\* Variant: two suggestions joined like three or more.
suggestions_sentence_oxford(sug) ==
    IF sug = <<>> THEN <<>>
    ELSE IF Len(sug) = 1 THEN <<"I'd recommend you " \o sug[1] \o ".">>
    ELSE <<"I'd recommend you " \o join(", ", but_last(sug)) \o ", and "
            \o sug[Len(sug)] \o ".">>

suggestions_sentence(sug) ==
    IF sug = <<>> THEN <<>>
    ELSE IF Len(sug) = 1 THEN <<"I'd recommend you " \o sug[1] \o ".">>
    ELSE IF Len(sug) = 2 THEN <<"I'd recommend you " \o sug[1] \o " and " \o sug[2] \o ".">>
    ELSE <<"I'd recommend you " \o join(", ", but_last(sug)) \o ", and "
            \o sug[Len(sug)] \o ".">>

\* Variant: the closing sentence decided by the score alone.
closing_sentence_by_score(health_score, iss) ==
    IF health_score >= 85
    THEN <<"Keep up the great work maintaining your system!">>
    ELSE <<>>

closing_sentence(health_score, iss) ==
    IF health_score >= 85 /\ iss = <<>>
    THEN <<"Keep up the great work maintaining your system!">>
    ELSE <<>>

\* the value returned for a report when datetime.now().hour is h
generate_greeting(rep, h) ==
    LET health_score == get(rep, "health_score", 100)
        found == collect_issues(rep)
        parts ==
            <<time_greeting(h), health_sentence(health_score)>>
            \o issues_sentence(found.issues)
            \o suggestions_sentence(found.suggestions)
            \o closing_sentence(health_score, found.issues)
    IN [text |-> join(" ", parts), parts |-> parts,
        issues |-> found.issues, suggestions |-> found.suggestions,
        cats |-> found.cats]

generate_greeting_raises(rep) == low_battery_raises(get(rep, "battery", None))

-----------------------------------------------------------------------------
(* SmartGreeting.get_quick_tips and SmartGreeting._get_health_insights *)

Min(a, b) == IF a <= b THEN a ELSE b

\* seq[:n]
take(seq, n) == SubSeq(seq, 1, Min(n, Len(seq)))

\* [x] if cond else []
when(cond, x) == IF cond THEN <<x>> ELSE <<>>

StorageTip ==
    "Run disk cleanup to free up space - empty trash, clear browser cache, and remove temporary files."
MemoryTip ==
    "Close unnecessary browser tabs and applications to free up RAM."
RestartTip ==
    "Restart your computer to apply updates and refresh system processes."
AutostartTip ==
    "Review your startup programs - disable unnecessary ones to speed up boot time."
BatteryHealthTip(hp) ==
    "Battery health is at " \o FormatTenths(hp)
        \o "% - avoid extreme temperatures and deep discharges."
BatteryCyclesTip ==
    "High battery cycle count - consider calibrating battery or reducing charge cycles."
MaintenanceTip ==
    "Run a system maintenance routine: update drivers, scan for malware, and clean temporary files."

\* lines 694-701: the if/elif on the battery; `if health_percentage and ...`
\* and `elif cycle_count and ...` test the numbers for truth first
battery_tips(battery) ==
    IF ~dict_truthy(battery) THEN <<>>
    ELSE IF num_truthy(battery, "health_percentage")
              /\ battery.health_percentage < Pct(80)
         THEN <<BatteryHealthTip(battery.health_percentage)>>
    ELSE IF num_truthy(battery, "cycle_count") /\ battery.cycle_count > 500
         THEN <<BatteryCyclesTip>>
    ELSE <<>>

\* the local list `tips` before the final slice
all_tips(rep) ==
    when(get(get(rep, "storage", EmptyDict), "percent_used", 0) > Pct(80), StorageTip)
    \o when(get(get(rep, "memory", EmptyDict), "percent_used", 0) > Pct(80), MemoryTip)
    \o when(get(get(rep, "startup", EmptyDict), "uptime_days", 0) > 7, RestartTip)
    \o when(Len(get(rep, "autostart_programs", <<>>)) > 10, AutostartTip)
    \o battery_tips(get(rep, "battery", None))
    \o when(get(rep, "health_score", 100) < 80, MaintenanceTip)

\* return tips[:3]
get_quick_tips(rep) == take(all_tips(rep), 3)

StorageInsight ==
    "You have plenty of storage space available for new files and applications."
MemoryInsight ==
    "Memory usage is optimal - your system should be running smoothly."
FreshInsight ==
    "Recent restart detected - your system should be running fresh and fast."
UptimeInsight ==
    "Your uptime is in a good range - not too fresh, not too stale."
AutostartInsight ==
    "You have a clean startup configuration with minimal autostart programs."

\* uptime_hours is round(x, 1), held in tenths of an hour
Hrs(n) == n * 10

get_health_insights(rep) ==
    LET uptime_hours == get(get(rep, "startup", EmptyDict), "uptime_hours", 0) IN
    when(get(get(rep, "storage", EmptyDict), "percent_used", 0) < Pct(50), StorageInsight)
    \o when(get(get(rep, "memory", EmptyDict), "percent_used", 0) < Pct(60), MemoryInsight)
    \o when(get(get(rep, "startup", EmptyDict), "uptime_days", 0) < 1, FreshInsight)
    \o when(Hrs(24) <= uptime_hours /\ uptime_hours <= Hrs(168), UptimeInsight)
    \o when(Len(get(rep, "autostart_programs", <<>>)) < 5, AutostartInsight)

-----------------------------------------------------------------------------
(* ConfigManager *)

default_config ==
    [display_sections |->
        [storage |-> TRUE, memory |-> TRUE, startup |-> TRUE, battery |-> TRUE,
         autostart |-> TRUE, services |-> FALSE, drivers |-> TRUE],
     greeting_style |-> "friendly",
     show_tips |-> TRUE,
     show_insights |-> TRUE,
     health_warnings |-> TRUE,
     max_autostart_display |-> 5,
     max_services_display |-> 5,
     personality_greetings |-> TRUE]

-----------------------------------------------------------------------------
(* The reports the functions are applied to.  Every value set holds both
   sides of every threshold the scorer and the greeter compare against; the
   counters without an upper limit are capped by the bounds. *)

StoragePercents == {Pct(80), Pct(80) + 1, Pct(90), Pct(90) + 1, Pct(91), Pct(95)}
MemoryPercents == {Pct(50), Pct(80), Pct(80) + 1, Pct(85), Pct(85) + 1, Pct(90), Pct(90) + 1}
UptimeDays == {0, 14, 15, 30} \cup (31 .. MaxUptimeDays)
UpdateCounts == {0, 1, 5} \cup (6 .. MaxUpdates)
BatteryPercents == {Pct(20) - 1, Pct(20)}
HealthPercents == {0, Pct(45), Pct(50) - 1, Pct(50), Pct(70) - 1, Pct(70),
                   Pct(80) - 1, Pct(80)}
CycleCounts == {0, 500, 501, 800, 801, 1000, 1200} \cup (1001 .. MaxCycleCount)

Optional(S) == {{}} \cup {{x} : x \in S}

Storages == {ErrorMarker} \cup {StorageData(p) : p \in StoragePercents}
Memories == {ErrorMarker} \cup {MemoryData(p) : p \in MemoryPercents}
Startups == {ErrorMarker} \cup {StartupData(d) : d \in UptimeDays}
Drivers == {DriverError} \cup {DriverData(n) : n \in UpdateCounts}
Batteries ==
    {None} \cup {BatteryData(p, pl, hp, cy) :
                    p \in BatteryPercents, pl \in BOOLEAN,
                    hp \in Optional(HealthPercents), cy \in Optional(CycleCounts)}

\* One report of every kind of battery: none, a healthy one, one worn as far
\* as the greeter lets pass without an issue, the worn-out one of the
\* compounding example, one whose measured health is 0.
SampleBatteries ==
    {None,
     BatteryData(Pct(20), TRUE, {Pct(80)}, {500}),
     BatteryData(Pct(20), FALSE, {Pct(70)}, {800}),
     BatteryData(Pct(15), FALSE, {Pct(45)}, {1200}),
     BatteryData(Pct(20) - 1, FALSE, {0}, {801})}

\* The best and the worst record of each other category.
ExtremeStorages == {ErrorMarker, StorageData(Pct(95))}
ExtremeMemories == {MemoryData(Pct(50)), MemoryData(Pct(90) + 1)}
ExtremeStartups == {StartupData(0), StartupData(31)}
ExtremeDrivers == {DriverData(0), DriverData(6)}

Report(st, me, up, ba, dr) ==
    [storage |-> st, memory |-> me, startup |-> up, battery |-> ba, drivers |-> dr]

\* Every combination of storage, memory, uptime and drivers with the sample
\* batteries, and every battery with the extremes of the other categories.
Reports ==
    {Report(st, me, up, ba, dr) :
        st \in Storages, me \in Memories, up \in Startups,
        ba \in SampleBatteries, dr \in Drivers}
    \cup
    {Report(st, me, up, ba, dr) :
        st \in ExtremeStorages, me \in ExtremeMemories, up \in ExtremeStartups,
        ba \in Batteries, dr \in ExtremeDrivers}

\* Every sub-record missing: empty records, no battery.
AllMissing == Report(EmptyDict, EmptyDict, EmptyDict, None, EmptyDict)

Hours == {4, 5, 11, 12, 17, 21}

-----------------------------------------------------------------------------
(* The state machine *)

\* Nothing printed yet.
NoOutput ==
    [rows |-> <<>>, listing |-> <<>>, tips |-> <<>>, insights |-> <<>>,
     errors |-> <<>>]

NoAdvice == tips = <<>> /\ insights = <<>>

\* run(show_report=True, show_greeting=True) under the default configuration
DefaultRun ==
    /\ args = [show_report |-> TRUE, show_greeting |-> TRUE]
    /\ config = default_config
    /\ console = NoOutput

NoFiles == files = EmptyDict /\ last_load = EmptyDict /\ loads = <<>>

Init ==
    /\ report \in Reports \cup {AllMissing, EmptyDict}
    /\ pc = "collected"
    /\ hour = 0
    /\ greeting = ""
    /\ greeting_parts = <<>>
    /\ issues = <<>>
    /\ suggestions = <<>>
    /\ cats = <<>>
    /\ exc = "none"
    /\ NoAdvice
    /\ probe = EmptyDict
    /\ DefaultRun
    /\ NoFiles

\* collect_full_report, line 568:
\*   report["health_score"] = self.get_system_health_score(report)
StoreHealthScore ==
    /\ pc = "collected"
    /\ report' = [health_score |-> get_system_health_score(report)] @@ report
    /\ pc' = "scored"
    /\ UNCHANGED <<greeter_vars, advice_vars, run_vars, file_vars>>

\* SmartGreeting.generate_greeting(report); the hour is read from the clock
\* inside the call.
GenerateGreeting ==
    /\ pc \in {"scored", "greeted"}
    /\ \E h \in Hours :
        /\ hour' = h
        /\ IF generate_greeting_raises(report)
           THEN /\ exc' = "TypeError"
                /\ UNCHANGED <<greeting, greeting_parts, issues, suggestions, cats>>
           ELSE LET result == generate_greeting(report, h) IN
                /\ exc' = "none"
                /\ greeting' = result.text
                /\ greeting_parts' = result.parts
                /\ issues' = result.issues
                /\ suggestions' = result.suggestions
                /\ cats' = result.cats
    /\ pc' = "greeted"
    /\ UNCHANGED <<report, advice_vars, run_vars, file_vars>>

Next == StoreHealthScore \/ GenerateGreeting

Spec == Init /\ [][Next]_vars

-----------------------------------------------------------------------------
(* get_quick_tips applied to scored reports.  The reports carry the list of
   autostart programs next to the five scored sub-records, with every tip
   threshold on both sides. *)

ProgramNames(n) == [i \in 1 .. n |-> "program" \o ToString(i)]

TipStorages == {ErrorMarker, StorageData(Pct(80)), StorageData(Pct(80) + 1),
                StorageData(Pct(95))}
TipMemories == {ErrorMarker, MemoryData(Pct(80)), MemoryData(Pct(80) + 1)}
TipStartups == {ErrorMarker, StartupData(7), StartupData(8), StartupData(31)}
TipAutostarts == {ProgramNames(n) : n \in {0, 10} \cup (11 .. MaxPrograms)}
TipBatteries ==
    {None} \cup {BatteryData(Pct(50), TRUE, hp, cy) :
                    hp \in Optional({0, Pct(80) - 1, Pct(80)}),
                    cy \in Optional({500, 501})}
TipDrivers == {DriverData(0), DriverData(1), DriverData(6)}

TipReports ==
    {[autostart_programs |-> au] @@ Report(st, me, up, ba, dr) :
        st \in TipStorages, me \in TipMemories, up \in TipStartups,
        au \in TipAutostarts, ba \in TipBatteries, dr \in TipDrivers}

InitTips ==
    /\ report \in TipReports \cup {AllMissing, EmptyDict}
    /\ pc = "collected"
    /\ hour = 0
    /\ greeting = ""
    /\ greeting_parts = <<>>
    /\ issues = <<>>
    /\ suggestions = <<>>
    /\ cats = <<>>
    /\ exc = "none"
    /\ NoAdvice
    /\ probe = EmptyDict
    /\ DefaultRun
    /\ NoFiles

\* SmartGreeting.get_quick_tips(report)
GetQuickTips ==
    /\ pc = "scored"
    /\ tips' = get_quick_tips(report)
    /\ pc' = "tipped"
    /\ UNCHANGED <<report, greeter_vars, insights, run_vars, file_vars>>

NextTips == StoreHealthScore \/ GetQuickTips

SpecTips == InitTips /\ [][NextTips]_vars

-----------------------------------------------------------------------------
(* The collectors of SystemMonitor.  `probe` holds, for each collector, what
   the platform call behind it does in this run: it raises, or it answers
   with a reading.  Sizes are held in tenths of a GB and the uptime in
   minutes. *)

Fails == [raises |-> TRUE]

UsageReading(used, total, percent) ==
    [raises |-> FALSE, used |-> used, total |-> total, percent |-> percent]

BootReading(minutes) == [raises |-> FALSE, uptime_minutes |-> minutes]

ListReading(names) == [raises |-> FALSE, names |-> names]

NoBattery == [raises |-> FALSE, present |-> FALSE]
BatteryReading(info) == [raises |-> FALSE, present |-> TRUE, info |-> info]

\* the update query answers with a count, or (line 480, and on platforms with
\* no query) with nothing the code reads a count from
CountReading(n) == [raises |-> FALSE, parsed |-> TRUE, count |-> n]
NoCount == [raises |-> FALSE, parsed |-> FALSE]

\* round(a / b), away from the ties the readings below never hit
round_div(a, b) == IF 2 * (a % b) < b THEN a \div b ELSE (a \div b) + 1

get_storage_info(p) ==
    IF p.raises THEN ErrorMarker
    ELSE [used_gb |-> p.used, total_gb |-> p.total, free_gb |-> p.total - p.used]
            @@ StorageData(p.percent)

get_memory_info(p) ==
    IF p.raises THEN ErrorMarker
    ELSE [total_gb |-> p.total, used_gb |-> p.used, available_gb |-> p.total - p.used]
            @@ MemoryData(p.percent)

get_startup_info(p) ==
    IF p.raises THEN ErrorMarker
    ELSE [startup_time |-> "boot time",
          uptime_hours |-> round_div(p.uptime_minutes, 6)]
            @@ StartupData(p.uptime_minutes \div 1440)

get_autostart_programs_uncapped(p) ==
    IF p.raises THEN <<"Error detecting autostart: platform error">> ELSE p.names

\* return programs[:10]
get_autostart_programs(p) ==
    take(IF p.raises THEN <<"Error detecting autostart: platform error">>
         ELSE p.names, 10)

\* return services[:8]
get_running_services(p) ==
    take(IF p.raises THEN <<"Error: platform error">> ELSE p.names, 8)

get_battery_info(p) ==
    IF p.raises THEN None
    ELSE IF ~p.present THEN None
    ELSE [time_left |-> None] @@ p.info

DriverUnknown == [available_updates |-> 0, status |-> "unknown"]

check_driver_updates(p) ==
    [last_checked |-> "now"]
        @@ (IF p.raises THEN DriverError
            ELSE IF p.parsed THEN DriverData(p.count)
            ELSE DriverUnknown)

CollectorKeys ==
    {"storage", "memory", "startup", "autostart_programs", "services",
     "battery", "drivers"}

\* lines 550-566: the dict literal of collect_full_report
collect_full_report(p) ==
    [timestamp |-> "now",
     os |-> [system |-> "Linux", release |-> "release", version |-> "version",
             machine |-> "machine", processor |-> "processor"],
     storage |-> get_storage_info(p.storage),
     memory |-> get_memory_info(p.memory),
     startup |-> get_startup_info(p.startup),
     autostart_programs |-> get_autostart_programs(p.autostart_programs),
     services |-> get_running_services(p.services),
     battery |-> get_battery_info(p.battery),
     drivers |-> check_driver_updates(p.drivers)]

\* The collectors whose whole body stands in a try block that catches every
\* Exception: all of them.
guarded_collectors_but_storage == CollectorKeys \ {"storage"}

guarded_collectors == CollectorKeys

\* an exception of a collector call leaves collect_full_report
collect_full_report_raises(p) ==
    \E k \in CollectorKeys \ guarded_collectors : p[k].raises

-----------------------------------------------------------------------------
(* SystemGreeter.display_system_report: the rows of the table and the
   autostart listing.  The two health marks of the table, the check mark and
   the warning sign, are written "ok" and "warning". *)

Ok == "ok"
Warning == "warning"

\* d.get(k) == v for a string v
has(d, k, v) == k \in DOMAIN d /\ d[k] = v

\* f"{d.get(k, 0):.1f}" for a size or a number of hours
format_1f(d, k) == FormatTenths(get(d, k, 0))

\* f"{d.get('percent_used', 0)}": the float as it is, or the int 0
format_percent(d) ==
    IF "percent_used" \in DOMAIN d THEN FormatTenths(d.percent_used) ELSE "0"

usage_status(d) ==
    format_1f(d, "used_gb") \o "GB / " \o format_1f(d, "total_gb") \o "GB ("
        \o format_percent(d) \o "%)"

storage_row(rep) ==
    LET storage == get(rep, "storage", EmptyDict) IN
    [component |-> "Storage", status |-> usage_status(storage),
     health |-> IF has(storage, "status", "low") THEN Warning ELSE Ok]

memory_row(rep) ==
    LET memory == get(rep, "memory", EmptyDict) IN
    [component |-> "Memory", status |-> usage_status(memory),
     health |-> IF has(memory, "status", "high") THEN Warning ELSE Ok]

uptime_row(rep) ==
    LET startup == get(rep, "startup", EmptyDict) IN
    [component |-> "Uptime",
     status |-> "Up " \o ToString(get(startup, "uptime_days", 0)) \o " days, "
                    \o format_1f(startup, "uptime_hours") \o " hours",
     health |-> IF has(startup, "status", "long") THEN Warning ELSE Ok]

battery_row(battery) ==
    LET status_parts ==
            <<FormatTenths(battery.percent) \o "% ("
                \o (IF battery.plugged THEN "Charging" ELSE "On Battery") \o ")">>
            \o (IF num_truthy(battery, "health_percentage")
                THEN <<"Health: " \o FormatTenths(battery.health_percentage) \o "% ("
                          \o get(battery, "health_status", "unknown") \o ")">>
                ELSE <<>>)
            \o (IF num_truthy(battery, "cycle_count")
                THEN <<"Cycles: " \o ToString(battery.cycle_count)>>
                ELSE <<>>)
    IN [component |-> "Battery", status |-> join(" | ", status_parts),
        health |-> IF \/ has(battery, "status", "critical")
                      \/ /\ num_truthy(battery, "health_percentage")
                         /\ battery.health_percentage < Pct(80)
                      \/ /\ num_truthy(battery, "cycle_count")
                         /\ battery.cycle_count > 800
                   THEN Warning ELSE Ok]

drivers_row(rep) ==
    LET updates == get(get(rep, "drivers", EmptyDict), "available_updates", 0) IN
    [component |-> "Drivers",
     status |-> IF updates > 0 THEN ToString(updates) \o " updates available"
                ELSE "Up to date",
     health |-> IF updates > 0 THEN Warning ELSE Ok]

overall_row(rep) ==
    LET health_score == get(rep, "health_score", 100)
        score_color == IF health_score >= 90 THEN "green"
                       ELSE IF health_score >= 70 THEN "yellow" ELSE "red"
    IN [component |-> "Overall Health",
        status |-> "[" \o score_color \o "]" \o ToString(health_score) \o "/100[/"
                       \o score_color \o "]",
        health |-> "target"]

display_rows(rep, cfg) ==
    LET sections == cfg.display_sections IN
    (IF get(sections, "storage", FALSE) THEN <<storage_row(rep)>> ELSE <<>>)
    \o (IF get(sections, "memory", FALSE) THEN <<memory_row(rep)>> ELSE <<>>)
    \o (IF get(sections, "startup", FALSE) THEN <<uptime_row(rep)>> ELSE <<>>)
    \o (IF get(sections, "battery", FALSE) /\ dict_truthy(get(rep, "battery", None))
        THEN <<battery_row(rep.battery)>> ELSE <<>>)
    \o (IF get(sections, "drivers", FALSE) THEN <<drivers_row(rep)>> ELSE <<>>)
    \o <<overall_row(rep)>>

autostart_listing(rep, cfg) ==
    LET autostart == get(rep, "autostart_programs", <<>>)
        display_count == Min(Len(autostart), cfg.max_autostart_display)
    IN IF get(cfg.display_sections, "autostart", FALSE) /\ Len(autostart) > 0
       THEN <<"Autostart Programs (" \o ToString(Len(autostart)) \o "):">>
            \o [i \in 1 .. display_count |->
                    "  " \o ToString(i) \o ". " \o autostart[i]]
            \o (IF Len(autostart) > display_count
                THEN <<"  ... and " \o ToString(Len(autostart) - display_count)
                          \o " more">>
                ELSE <<>>)
       ELSE <<>>

shown_insights_from_first(found) == SubSeq(found, 1, Min(2, Len(found)))

\* for insight in insights[1:3]
shown_insights(found) == SubSeq(found, 2, Min(3, Len(found)))

-----------------------------------------------------------------------------
(* SystemGreeter.run: collect the report, display it, greet, print the tips
   and the insights. *)

ServiceNames(n) == [i \in 1 .. n |-> "service" \o ToString(i)]

RunStorages ==
    {Fails, UsageReading(2000, 5000, Pct(40)), UsageReading(4750, 5000, Pct(95))}
RunMemories ==
    {Fails, UsageReading(80, 160, Pct(50)), UsageReading(152, 160, Pct(95))}
RunStartups == {Fails} \cup {BootReading(m) : m \in {1438, 1800, 48000}}
RunAutostarts ==
    {Fails} \cup {ListReading(ProgramNames(n)) : n \in {0, 5, 10} \cup (11 .. MaxPrograms)}
RunServices == {Fails, ListReading(ServiceNames(9))}
RunBatteries ==
    {Fails, NoBattery,
     BatteryReading(BatteryData(Pct(15), FALSE, {Pct(45)}, {1200}))}
RunDrivers == {Fails, NoCount, CountReading(0), CountReading(6)}

Probe(st, me, up, au, se, ba, dr) ==
    [storage |-> st, memory |-> me, startup |-> up, autostart_programs |-> au,
     services |-> se, battery |-> ba, drivers |-> dr]

Probes ==
    {Probe(st, me, up, au, se, ba, dr) :
        st \in RunStorages, me \in RunMemories, up \in RunStartups,
        au \in RunAutostarts, se \in RunServices, ba \in RunBatteries,
        dr \in RunDrivers}

\* The probes every combination of arguments and configuration is run on.
SampleProbes ==
    {Probe(st, me, up, au, ListReading(ServiceNames(9)), NoBattery, CountReading(0)) :
        st \in RunStorages,
        me \in {UsageReading(80, 160, Pct(50)), UsageReading(152, 160, Pct(95))},
        up \in {BootReading(1438), BootReading(48000)},
        au \in {ListReading(ProgramNames(0)), ListReading(ProgramNames(5))}}

RunArgs == [show_report : BOOLEAN, show_greeting : BOOLEAN]

\* What load_config can return for the keys run and display read: the
\* defaults with the two toggles as the file sets them, or with sections
\* switched off.
RunConfigs ==
    {[default_config EXCEPT !.show_tips = t, !.show_insights = i] : t, i \in BOOLEAN}
    \cup {[default_config EXCEPT !.display_sections.storage = FALSE,
                                 !.display_sections.autostart = FALSE]}

InitRun ==
    /\ \/ probe \in Probes /\ DefaultRun
       \/ /\ probe \in SampleProbes
          /\ args \in RunArgs
          /\ config \in RunConfigs
          /\ console = NoOutput
    /\ report = EmptyDict
    /\ pc = "start"
    /\ hour = 0
    /\ greeting = ""
    /\ greeting_parts = <<>>
    /\ issues = <<>>
    /\ suggestions = <<>>
    /\ cats = <<>>
    /\ exc = "none"
    /\ NoAdvice
    /\ NoFiles

\* run's handler `except Exception as e`: print the error, return None
print_error(out, e) == [out EXCEPT !.errors = Append(@, "Error: " \o e)]

\* run, line 870, into collect_full_report, lines 550-566
CollectFullReport ==
    /\ pc = "start"
    /\ IF collect_full_report_raises(probe)
       THEN /\ exc' = "Exception"
            /\ console' = print_error(console, "Exception")
            /\ pc' = "done"
            /\ UNCHANGED report
       ELSE /\ report' = collect_full_report(probe)
            /\ pc' = "collected"
            /\ UNCHANGED <<exc, console>>
    /\ UNCHANGED <<hour, greeting, greeting_parts, issues, suggestions, cats,
                   advice_vars, probe, args, config, file_vars>>

\* run, lines 872-874: if show_report: self.display_system_report(report)
DisplaySystemReport ==
    /\ pc = "scored"
    /\ console' = IF args.show_report
                  THEN [console EXCEPT !.rows = display_rows(report, config),
                                       !.listing = autostart_listing(report, config)]
                  ELSE console
    /\ pc' = "displayed"
    /\ UNCHANGED <<report, greeter_vars, advice_vars, probe, args, config, file_vars>>

\* run, lines 876-886: if show_greeting: greeting = generate_greeting(report)
ShowGreeting ==
    /\ pc = "displayed"
    /\ IF ~args.show_greeting
       THEN /\ pc' = "done"
            /\ UNCHANGED <<greeter_vars, console>>
       ELSE \E h \in Hours :
            /\ hour' = h
            /\ IF generate_greeting_raises(report)
               THEN /\ exc' = "TypeError"
                    /\ console' = print_error(console, "TypeError")
                    /\ pc' = "done"
                    /\ UNCHANGED <<greeting, greeting_parts, issues, suggestions, cats>>
               ELSE LET result == generate_greeting(report, h) IN
                    /\ exc' = "none"
                    /\ greeting' = result.text
                    /\ greeting_parts' = result.parts
                    /\ issues' = result.issues
                    /\ suggestions' = result.suggestions
                    /\ cats' = result.cats
                    /\ pc' = "greeting_shown"
                    /\ UNCHANGED console
    /\ UNCHANGED <<report, advice_vars, probe, args, config, file_vars>>

\* run, lines 888-893
ShowTips ==
    /\ pc = "greeting_shown"
    /\ IF get(config, "show_tips", TRUE)
       THEN /\ tips' = get_quick_tips(report)
            /\ console' = [console EXCEPT !.tips = get_quick_tips(report)]
       ELSE UNCHANGED <<tips, console>>
    /\ pc' = "tips_done"
    /\ UNCHANGED <<report, greeter_vars, insights, probe, args, config, file_vars>>

\* run, lines 895-900
ShowInsights ==
    /\ pc = "tips_done"
    /\ IF get(config, "show_insights", TRUE)
       THEN LET found == get_health_insights(report) IN
            /\ insights' = found
            /\ console' = [console EXCEPT
                              !.insights = IF Len(found) > 1 THEN shown_insights(found)
                                           ELSE <<>>]
       ELSE UNCHANGED <<insights, console>>
    /\ pc' = "done"
    /\ UNCHANGED <<report, greeter_vars, tips, probe, args, config, file_vars>>

NextRun ==
    \/ CollectFullReport
    \/ StoreHealthScore
    \/ DisplaySystemReport
    \/ ShowGreeting
    \/ ShowTips
    \/ ShowInsights

SpecRun == InitRun /\ [][NextRun]_vars

-----------------------------------------------------------------------------
(* ConfigManager.load_config and save_config on the file at config_path.  A
   file state says whether the path exists, whether open(path, 'r') and
   open(path, 'w') succeed, and what the text in the file is as JSON: not
   valid JSON, a JSON value that is not an object, or an object. *)

NoText == [json |-> "none"]
InvalidJson == [json |-> "invalid"]
JsonArray == [json |-> "array"]
JsonNull == [json |-> "null"]
JsonObject(d) == [json |-> "object", value |-> d]

Missing(writable) ==
    [exists |-> FALSE, readable |-> FALSE, writable |-> writable, content |-> NoText]

Present(readable, writable, content) ==
    [exists |-> TRUE, readable |-> readable, writable |-> writable,
     content |-> content]

\* open(self.config_path, 'r') or json.load(f) raises
read_raises(f) == ~f.readable \/ f.content.json = "invalid"

\* {**self.default_config, **config} raises TypeError: config is not a mapping
merge_raises(f) == f.content.json # "object"

save_config_skipped(f, cfg) == [file |-> f, reported |-> FALSE]

\* save_config(config): write the file, or print "Error saving config"
save_config(f, cfg) ==
    IF f.writable
    THEN [file |-> Present(IF f.exists THEN f.readable ELSE TRUE, TRUE, JsonObject(cfg)),
          reported |-> FALSE]
    ELSE [file |-> f, reported |-> TRUE]

\* load_config(): the dict returned, the file left behind, whether an error
\* was printed
load_config(f) ==
    IF f.exists /\ ~read_raises(f) /\ ~merge_raises(f)
    THEN [config |-> f.content.value @@ default_config, file |-> f,
          reported |-> FALSE]
    ELSE LET saved == save_config(f, default_config) IN
         [config |-> default_config, file |-> saved.file,
          reported |-> saved.reported]

DefaultPath == "config.json"
Paths == {DefaultPath, "custom.json"}

ConfigObjects ==
    {EmptyDict,
     [show_tips |-> FALSE],
     [show_insights |-> FALSE, theme |-> "dark"],
     [display_sections |-> [storage |-> FALSE]]}

FileStates ==
    {Missing(w) : w \in BOOLEAN}
    \cup {Present(r, w, c) :
            r \in BOOLEAN, w \in BOOLEAN,
            c \in {InvalidJson, JsonArray, JsonNull}
                    \cup {JsonObject(d) : d \in ConfigObjects}}

InitConfig ==
    /\ files \in [Paths -> FileStates]
    /\ last_load = EmptyDict
    /\ loads = <<>>
    /\ pc = "init"
    /\ report = EmptyDict
    /\ hour = 0
    /\ greeting = ""
    /\ greeting_parts = <<>>
    /\ issues = <<>>
    /\ suggestions = <<>>
    /\ cats = <<>>
    /\ exc = "none"
    /\ NoAdvice
    /\ probe = EmptyDict
    /\ DefaultRun

\* self.config = self.config_manager.load_config() with config_path = path
LoadFrom(path) ==
    LET loaded == load_config(files[path]) IN
    /\ config' = loaded.config
    /\ files' = [files EXCEPT ![path] = loaded.file]
    /\ last_load' = [path |-> path, found |-> files[path],
                     reported |-> loaded.reported]
    /\ loads' = Append(loads, [path |-> path, found |-> files[path],
                               reported |-> loaded.reported,
                               config |-> loaded.config])
    /\ console' = IF loaded.reported
                  THEN [console EXCEPT !.errors = Append(@, "Error saving config")]
                  ELSE console

ConstructGreeterWithoutLoad ==
    /\ pc = "init"
    /\ pc' = "constructed"
    /\ UNCHANGED <<report, greeter_vars, advice_vars, run_vars, file_vars>>

\* SystemGreeter.__init__: ConfigManager() with the default path, load_config()
ConstructGreeter ==
    /\ pc = "init"
    /\ LoadFrom(DefaultPath)
    /\ pc' = "constructed"
    /\ UNCHANGED <<report, greeter_vars, advice_vars, probe, args>>

\* main, lines 927-928: config_path = Path(args.config); load_config()
ApplyConfigArgument ==
    /\ pc = "constructed"
    /\ \E path \in Paths : LoadFrom(path)
    /\ pc' = "configured"
    /\ UNCHANGED <<report, greeter_vars, advice_vars, probe, args>>

NextConfig == ConstructGreeter \/ ApplyConfigArgument

SpecConfig == InitConfig /\ [][NextConfig]_vars

-----------------------------------------------------------------------------
(* What the claims speak about: the measurements of the current report and
   the deduction table of the specification. *)

Scored == pc # "collected"
Greeted == pc = "greeted" /\ exc = "none"

SlotOf(k) == get(report, k, EmptyDict)
Errored(k) == "error" \in DOMAIN SlotOf(k)
StoragePct == get(SlotOf("storage"), "percent_used", 0)
MemoryPct == get(SlotOf("memory"), "percent_used", 0)
UptimeDaysOf == get(SlotOf("startup"), "uptime_days", 0)
UpdatesOf == get(SlotOf("drivers"), "available_updates", 0)
BatteryOf == get(report, "battery", None)
HasBattery == BatteryOf # None
HasHealth == HasBattery /\ "health_percentage" \in DOMAIN BatteryOf
HasCycles == HasBattery /\ "cycle_count" \in DOMAIN BatteryOf

InSeq(seq, x) == \E i \in DOMAIN seq : seq[i] = x

TableStorage(p) == IF p > Pct(90) THEN 20 ELSE IF p > Pct(80) THEN 10 ELSE 0
TableMemory(p) == IF p > Pct(90) THEN 15 ELSE IF p > Pct(80) THEN 8 ELSE 0
TableUptime(d) == IF d > 30 THEN 5 ELSE 0
TableDrivers(n) == IF n > 5 THEN 15 ELSE IF n > 0 THEN 5 ELSE 0
TableCharge(percent, plugged) == IF percent < Pct(20) /\ ~plugged THEN 10 ELSE 0
TableHealth(hp) ==
    IF hp < Pct(50) THEN 25 ELSE IF hp < Pct(70) THEN 15
    ELSE IF hp < Pct(80) THEN 8 ELSE 0
TableCycles(n) == IF n > 1000 THEN 10 ELSE IF n > 500 THEN 5 ELSE 0

TableOthers ==
    TableStorage(StoragePct) + TableMemory(MemoryPct) + TableUptime(UptimeDaysOf)
    + TableDrivers(UpdatesOf)

TableBattery ==
    IF HasBattery
    THEN TableCharge(BatteryOf.percent, BatteryOf.plugged)
         + (IF HasHealth THEN TableHealth(BatteryOf.health_percentage) ELSE 0)
         + (IF HasCycles THEN TableCycles(BatteryOf.cycle_count) ELSE 0)
    ELSE 0

NothingMeasured ==
    /\ \A k \in {"storage", "memory", "startup", "drivers"} : SlotOf(k) = EmptyDict
    /\ ~HasBattery

-----------------------------------------------------------------------------
\* C1: the stored health score is an integer in 0..100 for every report, and
\* it is exactly 100 for the report in which every sub-record is missing
\* (empty storage, memory, startup and drivers records, no battery).
C1_ScoreInRange ==
    Scored =>
        /\ report.health_score \in 0 .. 100
        /\ NothingMeasured => report.health_score = 100

C1_Witness == pc = "scored" /\ NothingMeasured /\ report.health_score = 100

\* C2: without a battery the score is 100 minus the sum of the four table
\* deductions for storage, memory, uptime and drivers, each taken from its own
\* measurement only.
C2_NoBatteryScore ==
    (Scored /\ ~HasBattery) => report.health_score = 100 - TableOthers

C2_Witness ==
    /\ pc = "scored" /\ ~HasBattery
    /\ StoragePct = Pct(95) /\ MemoryPct = Pct(50)
    /\ UptimeDaysOf = 0 /\ UpdatesOf = 0
    /\ report.health_score = 80

\* C3: with a battery record the battery part of the deduction is the sum of
\* the charge, health and cycle deductions of the table, for every present
\* health percentage in 0..100 (0 included) and every present cycle count;
\* without a battery record the battery part is 0.
C3_BatteryDeductions ==
    Scored => report.health_score = 100 - TableOthers - TableBattery

\* C4 as stated: a storage percentage of exactly 90 receives no storage
\* deduction at all, one of 91 receives the 20 points: the score and the
\* deductions of the other categories add up to 100 and to 80.
C4_Original ==
    LET others == MemoryDeduction(report) + BatteryDeduction(report)
                  + UptimeDeduction(report) + DriversDeduction(report)
    IN Scored =>
        /\ StoragePct = Pct(90) => report.health_score + others = 100
        /\ StoragePct = Pct(91) => report.health_score + others = 80

\* C4 amended: a storage percentage of exactly 90 receives the 10 points of
\* the tier above 80 (and not the 20 points), one of 91 receives the 20
\* points (and not the 10).
C4_StorageBoundary ==
    LET others == MemoryDeduction(report) + BatteryDeduction(report)
                  + UptimeDeduction(report) + DriversDeduction(report)
    IN Scored =>
        /\ StoragePct = Pct(90) => report.health_score + others = 90
        /\ StoragePct = Pct(91) => report.health_score + others = 80

C4_Witness ==
    /\ pc = "scored" /\ StoragePct = Pct(90) /\ report.health_score = 90

\* The report of the compounding example: its only deductions come from a
\* battery at 15 %, not plugged, with 45 % health and 1200 cycles.
CompoundingExample ==
    /\ TableOthers = 0
    /\ HasBattery /\ HasHealth /\ HasCycles
    /\ BatteryOf.percent = Pct(15) /\ ~BatteryOf.plugged
    /\ BatteryOf.health_percentage = Pct(45)
    /\ BatteryOf.cycle_count = 1200

\* C5 as stated: the compounding example scores 65.
C5_Original == (Scored /\ CompoundingExample) => report.health_score = 65

\* C5 amended: in the compounding example the three battery deductions 10, 25
\* and 10 are all applied, and the score is 100 - 10 - 25 - 10 = 55.
C5_Compounding == (Scored /\ CompoundingExample) => report.health_score = 55

C5_Witness == pc = "scored" /\ CompoundingExample /\ report.health_score = 55

-----------------------------------------------------------------------------
\* C6: with no battery and any of storage, memory and startup replaced by an
\* error marker, generate_greeting raises nothing, every errored category
\* deducts nothing and appends no issue, and the report made of error markers
\* only scores 100 and has no issue.
C6_ErrorMarkersAreClean ==
    (Scored /\ ~HasBattery) =>
        /\ pc = "greeted" => exc = "none"
        /\ report.health_score =
              100 - (IF Errored("storage") THEN 0 ELSE TableStorage(StoragePct))
                  - (IF Errored("memory") THEN 0 ELSE TableMemory(MemoryPct))
                  - (IF Errored("startup") THEN 0 ELSE TableUptime(UptimeDaysOf))
                  - TableDrivers(UpdatesOf)
        /\ Greeted =>
              /\ Errored("storage") => ~InSeq(cats, "storage")
              /\ Errored("memory") => ~InSeq(cats, "memory")
              /\ Errored("startup") => ~InSeq(cats, "uptime")
        /\ (\A k \in {"storage", "memory", "startup", "drivers"} : Errored(k)) =>
              /\ report.health_score = 100
              /\ Greeted => issues = <<>> /\ suggestions = <<>>

C6_Witness ==
    /\ Greeted /\ ~HasBattery
    /\ \A k \in {"storage", "memory", "startup", "drivers"} : Errored(k)
    /\ report.health_score = 100
    /\ issues = <<>>

-----------------------------------------------------------------------------
\* The time-of-day bands of the salutation: [5,12), [12,17), [17,21), other.
Band(h) ==
    IF 5 <= h /\ h < 12 THEN "morning"
    ELSE IF 12 <= h /\ h < 17 THEN "afternoon"
    ELSE IF 17 <= h /\ h < 21 THEN "evening"
    ELSE "other"

-----------------------------------------------------------------------------
(* The issue/suggestion pairs of the specification, by category, for the
   measurements of the current report. *)

CatOrder ==
    <<"storage", "memory", "uptime", "battery_charge", "battery_health",
      "battery_cycles", "drivers">>

Rank(c) == CHOOSE i \in DOMAIN CatOrder : CatOrder[i] = c

PairsOf(c) ==
    CASE c = "storage" ->
            {<<"critically low disk space", "free up disk space immediately">>,
             <<"limited disk space", "consider cleaning up files">>}
      [] c = "memory" -> {<<"high memory usage", "close unused applications">>}
      [] c = "uptime" ->
            {<<ToString(UptimeDaysOf) \o " days uptime", "restart your computer soon">>}
      [] c = "battery_charge" -> {<<"low battery", "connect your charger">>}
      [] c = "battery_health" ->
            IF HasHealth
            THEN LET text == "battery health at "
                             \o FormatTenths(BatteryOf.health_percentage) \o "% ("
                             \o BatteryOf.health_status \o ")"
                 IN {<<text, "consider battery replacement">>,
                     <<text, "monitor battery performance">>}
            ELSE {}
      [] c = "battery_cycles" ->
            IF HasCycles
            THEN {<<"high battery cycles (" \o ToString(BatteryOf.cycle_count) \o ")",
                    "consider battery maintenance">>}
            ELSE {}
      [] c = "drivers" ->
            {<<ToString(UpdatesOf) \o " driver updates available", "update your drivers">>}

\* C8: issues and suggestions are built as pairs: equal lengths, the i-th
\* suggestion is the one of the i-th issue's category, a category appears at
\* most once, and the categories appear in the order storage, memory, uptime,
\* battery charge, battery health, battery cycles, drivers.
C8_PairsInOrder ==
    Greeted =>
        /\ Len(issues) = Len(suggestions)
        /\ Len(cats) = Len(issues)
        /\ \A i \in DOMAIN issues : <<issues[i], suggestions[i]>> \in PairsOf(cats[i])
        /\ \A i, j \in DOMAIN cats : i < j => Rank(cats[i]) < Rank(cats[j])

C8_Witness == Greeted /\ cats = CatOrder /\ Len(suggestions) = 7

\* C9: the greeter's own thresholds: a storage issue iff storage > 80 %
\* (critical above 90 %, limited otherwise), the memory issue iff memory
\* > 85 %, the uptime issue iff uptime > 14 days, the driver issue iff there
\* are updates; memory in (80, 85] costs 8 points without an issue, uptime of
\* 15..30 days gives an issue without costing points.
C9_ExtractorThresholds ==
    Greeted =>
        /\ InSeq(cats, "storage") <=> StoragePct > Pct(80)
        /\ InSeq(issues, "critically low disk space") <=> StoragePct > Pct(90)
        /\ InSeq(issues, "limited disk space")
              <=> (StoragePct > Pct(80) /\ StoragePct <= Pct(90))
        /\ InSeq(issues, "high memory usage") <=> MemoryPct > Pct(85)
        /\ InSeq(cats, "memory") <=> MemoryPct > Pct(85)
        /\ InSeq(issues, ToString(UptimeDaysOf) \o " days uptime") <=> UptimeDaysOf > 14
        /\ InSeq(cats, "uptime") <=> UptimeDaysOf > 14
        /\ InSeq(issues, ToString(UpdatesOf) \o " driver updates available")
              <=> UpdatesOf > 0
        /\ InSeq(cats, "drivers") <=> UpdatesOf > 0
        /\ (MemoryPct > Pct(80) /\ MemoryPct <= Pct(85)) =>
              report.health_score =
                  100 - 8 - StorageDeduction(report) - BatteryDeduction(report)
                      - UptimeDeduction(report) - DriversDeduction(report)
        /\ (UptimeDaysOf > 14 /\ UptimeDaysOf <= 30) =>
              report.health_score =
                  100 - StorageDeduction(report) - MemoryDeduction(report)
                      - BatteryDeduction(report) - DriversDeduction(report)

C9_Witness ==
    /\ Greeted
    /\ MemoryPct = Pct(85) /\ ~InSeq(issues, "high memory usage")
    /\ UptimeDaysOf = 15 /\ InSeq(issues, "15 days uptime")
    /\ report.health_score = 92

\* C10: with a battery record the greeter emits "low battery" / "connect your
\* charger" iff percent < 20 and not plugged; a battery-health issue iff the
\* health percentage is present and < 70 (for every present value, 0
\* included), suggesting replacement below 50 and monitoring from 50 on; a
\* battery-cycles issue iff the cycle count is present and > 800.  Without a
\* battery record none of the three is emitted.
C10_BatteryIssues ==
    Greeted =>
        IF HasBattery
        THEN /\ InSeq(issues, "low battery")
                  <=> (BatteryOf.percent < Pct(20) /\ ~BatteryOf.plugged)
             /\ InSeq(suggestions, "connect your charger")
                  <=> (BatteryOf.percent < Pct(20) /\ ~BatteryOf.plugged)
             /\ InSeq(cats, "battery_health")
                  <=> (HasHealth /\ BatteryOf.health_percentage < Pct(70))
             /\ InSeq(suggestions, "consider battery replacement")
                  <=> (HasHealth /\ BatteryOf.health_percentage < Pct(50))
             /\ InSeq(suggestions, "monitor battery performance")
                  <=> (HasHealth /\ BatteryOf.health_percentage >= Pct(50)
                       /\ BatteryOf.health_percentage < Pct(70))
             /\ InSeq(cats, "battery_cycles")
                  <=> (HasCycles /\ BatteryOf.cycle_count > 800)
        ELSE \A c \in {"battery_charge", "battery_health", "battery_cycles"} :
                ~InSeq(cats, c)

-----------------------------------------------------------------------------
Closing == "Keep up the great work maintaining your system!"

\* C11: the closing sentence is part of the greeting iff the health score is
\* at least 85 and the issue list is empty (absent with a score of 85 or more
\* and an issue, absent with a score below 85 and no issue); when present it
\* is the last part, and the greeting is the parts joined by single spaces.
C11_ClosingSentence ==
    Greeted =>
        /\ InSeq(greeting_parts, Closing)
              <=> (report.health_score >= 85 /\ issues = <<>>)
        /\ InSeq(greeting_parts, Closing) =>
              /\ greeting_parts[Len(greeting_parts)] = Closing
              /\ \A i \in DOMAIN greeting_parts :
                    greeting_parts[i] = Closing => i = Len(greeting_parts)
              /\ greeting = join(" ", but_last(greeting_parts)) \o " " \o Closing

C11_Witness ==
    /\ Greeted /\ issues = <<>> /\ report.health_score = 79
    /\ ~InSeq(greeting_parts, Closing)

\* a, b, ..., and z: the elements in order, ", " between them and ", and "
\* before the last (two or more elements).
RECURSIVE OxfordList(_)
OxfordList(seq) ==
    IF Len(seq) = 2 THEN seq[1] \o ", and " \o seq[2]
    ELSE seq[1] \o ", " \o OxfordList(Tail(seq))

\* The parts of the greeting after the salutation and the health sentence,
\* without the closing sentence.
Sentences ==
    SelectSeq(SubSeq(greeting_parts, 3, Len(greeting_parts)),
              LAMBDA part : part # Closing)

\* C12: the issue and suggestion sentences are determined by the number n of
\* pairs: none for n = 0; "I noticed X." and "I'd recommend you a." for
\* n = 1; "I noticed a few things: X, and Y." but "I'd recommend you a and
\* b." for n = 2; both as comma-separated lists with ", and " before the last
\* element for n >= 3.
C12_SentenceForms ==
    Greeted =>
        LET n == Len(issues) IN
        /\ n = 0 => Sentences = <<>>
        /\ n = 1 => Sentences = <<"I noticed " \o issues[1] \o ".",
                                  "I'd recommend you " \o suggestions[1] \o ".">>
        /\ n = 2 => Sentences =
              <<"I noticed a few things: " \o issues[1] \o ", and " \o issues[2] \o ".",
                "I'd recommend you " \o suggestions[1] \o " and " \o suggestions[2] \o ".">>
        /\ n >= 3 => Sentences =
              <<"I noticed a few things: " \o OxfordList(issues) \o ".",
                "I'd recommend you " \o OxfordList(suggestions) \o ".">>

C12_Witness ==
    /\ Greeted
    /\ issues = <<"limited disk space", "high memory usage">>
    /\ Sentences =
          <<"I noticed a few things: limited disk space, and high memory usage.",
            "I'd recommend you consider cleaning up files and close unused applications.">>

\* C18: when the greeter finds no issue, the stored score is at least 79 and
\* the health sentence is neither the "needs some attention" nor the
\* "requires immediate maintenance" one; the score can be below 85, and then
\* the closing sentence is omitted although there is no issue.
C18_NoIssueScoreFloor ==
    (Greeted /\ issues = <<>>) =>
        /\ report.health_score >= 79
        /\ greeting_parts[2] \in
              {"Your system is running exceptionally well today! Everything looks perfect.",
               "Your computer is performing great with excellent system health.",
               "Your system is running well, though there might be room for minor improvements."}
        /\ report.health_score < 85 => ~InSeq(greeting_parts, Closing)

C18_Witness ==
    /\ Greeted /\ issues = <<>> /\ report.health_score = 79
    /\ greeting_parts =
          <<time_greeting(hour),
            "Your system is running well, though there might be room for minor improvements.">>

-----------------------------------------------------------------------------
(* Quick tips *)

Tipped == pc = "tipped"

AutostartCount == Len(get(report, "autostart_programs", <<>>))

\* The tips whose condition holds, in the evaluation order of the
\* specification: battery health below 80 %, or else more than 500 cycles.
TipsDue ==
    when(StoragePct > Pct(80), StorageTip)
    \o when(MemoryPct > Pct(80), MemoryTip)
    \o when(UptimeDaysOf > 7, RestartTip)
    \o when(AutostartCount > 10, AutostartTip)
    \o (IF HasHealth /\ BatteryOf.health_percentage < Pct(80)
        THEN <<BatteryHealthTip(BatteryOf.health_percentage)>>
        ELSE when(HasCycles /\ BatteryOf.cycle_count > 500, BatteryCyclesTip))
    \o when(get(report, "health_score", 100) < 80, MaintenanceTip)

IsBatteryTip(t) ==
    \/ t = BatteryCyclesTip
    \/ HasHealth /\ t = BatteryHealthTip(BatteryOf.health_percentage)

\* C13: get_quick_tips returns at most 3 entries, exactly the first three of
\* the tips whose condition holds (storage > 80, memory > 80, uptime > 7 days,
\* more than 10 autostart programs, battery health < 80 or else more than 500
\* cycles, health score < 80) in that order, with at most one battery tip.
C13_FirstThreeTips ==
    Tipped =>
        /\ Len(tips) <= 3
        /\ tips = take(TipsDue, 3)
        /\ Cardinality({i \in DOMAIN tips : IsBatteryTip(tips[i])}) <= 1

-----------------------------------------------------------------------------
(* The report of a run *)

ReportKeys ==
    {"timestamp", "os", "storage", "memory", "startup", "autostart_programs",
     "services", "battery", "drivers"}

DictSlots == {"storage", "memory", "startup", "drivers"}

\* collect_full_report has been called
Collected == pc \notin {"start"} /\ probe # EmptyDict

\* the run in which every collector fails, and the one in which none does
AllFail == [k \in CollectorKeys |-> Fails]
NoneFails ==
    Probe(UsageReading(2000, 5000, Pct(40)), UsageReading(80, 160, Pct(50)),
          BootReading(1800), ListReading(ProgramNames(5)),
          ListReading(ServiceNames(9)), NoBattery, CountReading(0))

\* what collector k alone puts into its slot, the others failing or not
SlotAmong(others, k) == collect_full_report([others EXCEPT ![k] = probe[k]])[k]

\* C14: whichever collectors fail, the report holds timestamp, os and the seven
\* collector slots, and health_score once it is stored; a failing collector
\* turns its own slot into an error marker (storage, memory, startup), an
\* error entry (autostart, services, drivers) or None (battery); every slot
\* is what its own collector yields whatever the other collectors do; no
\* exception leaves collect_full_report; health_score is the score of those
\* slots.
C14_CollectorsIndependent ==
    Collected =>
        /\ exc # "Exception"
        /\ ReportKeys \subseteq DOMAIN report
        /\ \A k \in {"storage", "memory", "startup"} :
              probe[k].raises <=> DOMAIN report[k] = {"error"}
        /\ probe.drivers.raises <=> "error" \in DOMAIN report.drivers
        /\ probe.battery.raises => report.battery = None
        /\ probe.autostart_programs.raises => Len(report.autostart_programs) = 1
        /\ probe.services.raises => Len(report.services) = 1
        /\ \A k \in CollectorKeys :
              /\ report[k] = SlotAmong(AllFail, k)
              /\ report[k] = SlotAmong(NoneFails, k)
        /\ pc # "collected" =>
              /\ DOMAIN report = ReportKeys \cup {"health_score"}
              /\ report.health_score
                    = get_system_health_score([k \in ReportKeys |-> report[k]])

C14_Witness ==
    /\ pc = "done"
    /\ probe = AllFail
    /\ DOMAIN report = ReportKeys \cup {"health_score"}
    /\ report.storage = ErrorMarker
    /\ report.battery = None
    /\ report.health_score = 100

\* C15: in a report built by the collectors no sub-record (storage, memory,
\* startup, drivers) carries an "error" key together with data fields.
C15_DataXorError ==
    Collected =>
        \A k \in DictSlots :
            "error" \in DOMAIN report[k] => DOMAIN report[k] = {"error"}

-----------------------------------------------------------------------------
(* The table of a run *)

Displayed == pc \in {"displayed", "greeting_shown", "tips_done", "done"} /\ args.show_report

ComponentOf(k) ==
    CASE k = "storage" -> "Storage"
      [] k = "memory" -> "Memory"
      [] k = "startup" -> "Uptime"
      [] k = "drivers" -> "Drivers"

RowsOf(k) == {i \in DOMAIN console.rows : console.rows[i].component = ComponentOf(k)}

\* C16: when the slot of a displayed category is in error state, the table
\* still has the row of that category and the row is marked as unavailable
\* or in error, not rendered like a healthy measurement.
C16_ErrorRowsMarked ==
    Displayed =>
        \A k \in DictSlots :
            (config.display_sections[k] /\ Errored(k)) =>
                /\ RowsOf(k) # {}
                /\ \A i \in RowsOf(k) : console.rows[i].health # Ok

-----------------------------------------------------------------------------
(* Tips and insights of a run *)

TipsPrinted == console.tips # <<>>
InsightsPrinted == console.insights # <<>>

\* C19: on a report built by collect_full_report the autostart list has at
\* most 10 names, so the autostart tip is neither among the tips
\* get_quick_tips collects nor among those it returns, and at most five tip
\* conditions match.
C19_NoAutostartTip ==
    Collected =>
        /\ Len(report.autostart_programs) <= 10
        /\ ~InSeq(all_tips(report), AutostartTip)
        /\ Len(all_tips(report)) <= 5
        /\ ~InSeq(tips, AutostartTip)
        /\ ~InSeq(console.tips, AutostartTip)

C19_Witness ==
    /\ pc = "done"
    /\ ~probe.autostart_programs.raises
    /\ Len(probe.autostart_programs.names) = 11
    /\ Len(report.autostart_programs) = 10
    /\ Len(all_tips(report)) = 5
    /\ tips = <<StorageTip, MemoryTip, RestartTip>>

\* C20: run prints tips only when the greeting is shown and show_tips is on,
\* and insights only when the greeting is shown and show_insights is on; the
\* insights section appears only when at least two insights were generated,
\* holds the second and the third of them and nothing else, and never the
\* first.
C20_TipsAndInsightsShown ==
    /\ TipsPrinted =>
          /\ args.show_greeting /\ config.show_tips
          /\ console.tips = tips
    /\ InsightsPrinted =>
          /\ args.show_greeting /\ config.show_insights
          /\ Len(insights) >= 2
          /\ Len(console.insights) <= 2
          /\ console.insights = SubSeq(insights, 2, Min(3, Len(insights)))
    /\ insights # <<>> => ~InSeq(console.insights, insights[1])
    /\ (pc = "done" /\ Len(insights) >= 2) => InsightsPrinted

C20_Witness ==
    /\ pc = "done"
    /\ insights = <<StorageInsight, MemoryInsight, FreshInsight, UptimeInsight,
                    AutostartInsight>>
    /\ console.insights = <<MemoryInsight, FreshInsight>>
    /\ TipsPrinted

-----------------------------------------------------------------------------
(* Loading the configuration *)

Loaded == last_load # EmptyDict

\* the file the last load_config found, and the file it left
Found == last_load.found
Left == files[last_load.path]

FoundMissing == ~Found.exists
FoundUnreadable == Found.exists /\ ~Found.readable
FoundInvalid == Found.exists /\ Found.readable /\ Found.content.json = "invalid"
FoundNonObject ==
    Found.exists /\ Found.readable /\ Found.content.json \in {"array", "null"}
FoundObject == Found.exists /\ Found.readable /\ Found.content.json = "object"

\* the top-level keys of the file found
TopLevelKeys == IF FoundObject THEN Found.content.value ELSE EmptyDict

\* fall back to the defaults and rewrite the file; a failed rewrite is
\* reported and leaves the file as it was
FellBack ==
    /\ config = default_config
    /\ IF Found.writable
       THEN /\ Left.exists /\ Left.content = JsonObject(default_config)
            /\ ~last_load.reported
       ELSE /\ Left = Found
            /\ last_load.reported
            /\ InSeq(console.errors, "Error saving config")

Overlaid ==
    /\ DOMAIN config = DOMAIN default_config \cup DOMAIN TopLevelKeys
    /\ \A k \in DOMAIN config :
          config[k] = IF k \in DOMAIN TopLevelKeys THEN TopLevelKeys[k]
                      ELSE default_config[k]
    /\ Left = Found
    /\ ~last_load.reported

-----------------------------------------------------------------------------
(* The two loads of main *)

Configured == pc = "configured"

FirstLoad == loads[1]
SecondLoad == loads[2]

\* the file the first load found was missing or corrupt: absent, unreadable,
\* not valid JSON, or not a JSON object
FirstFoundBad ==
    \/ ~FirstLoad.found.exists
    \/ ~FirstLoad.found.readable
    \/ FirstLoad.found.content.json # "object"

DefaultFile == files["config.json"]

DefaultFileRewritten ==
    DefaultFile.exists /\ DefaultFile.content = JsonObject(default_config)

\* main has loaded twice, config.json first and the --config path second, and
\* the configuration in effect is the one the second load returned: the
\* defaults overlaid by the top-level keys of the file at that path
LoadedTwice ==
    /\ Len(loads) = 2
    /\ FirstLoad.path = "config.json"
    /\ SecondLoad.path = last_load.path
    /\ SecondLoad.found = Found
    /\ config = SecondLoad.config
    /\ DOMAIN config = DOMAIN default_config \cup DOMAIN TopLevelKeys
    /\ \A k \in DOMAIN config :
          config[k] = IF k \in DOMAIN TopLevelKeys THEN TopLevelKeys[k]
                      ELSE default_config[k]

\* C21 as stated: after main has applied --config P with P other than
\* config.json, config.json has been created or rewritten with the defaults
\* whenever it was missing or corrupt.
C21_Original ==
    (Configured /\ last_load.path # "config.json") =>
        /\ LoadedTwice
        /\ FirstFoundBad => DefaultFileRewritten

\* C21: main loads the configuration twice, config.json first (in the
\* constructor) and the --config path P afterwards; with P other than
\* config.json the configuration in effect is the one loaded from P, and a
\* config.json that was missing or corrupt has been created or rewritten with
\* the defaults if it could be written, and is otherwise left as it was with
\* the failure reported; a config.json holding a readable JSON object is left
\* as it was.
C21_TwoLoads ==
    (Configured /\ last_load.path # "config.json") =>
        /\ LoadedTwice
        /\ IF FirstFoundBad
           THEN IF FirstLoad.found.writable
                THEN DefaultFileRewritten /\ ~FirstLoad.reported
                ELSE /\ DefaultFile = FirstLoad.found
                     /\ FirstLoad.reported
                     /\ InSeq(console.errors, "Error saving config")
           ELSE DefaultFile = FirstLoad.found

C21_Witness ==
    /\ Configured
    /\ last_load.path = "custom.json"
    /\ ~FirstLoad.found.exists
    /\ DefaultFileRewritten
    /\ FoundObject
    /\ config.show_tips = FALSE

====
